---- MODULE Spec2Model ----
(***************************************************************************)
(* Factur-X engine: the invoice model (app/models/invoice.py), the CII     *)
(* serializer (app/services/xml_generator.py), the XSD validator           *)
(* (app/services/xml_validator.py) and the HTTP handlers (app/main.py).    *)
(*                                                                         *)
(* Strings the code inspects are sequences of one-character strings.       *)
(* A decimal.Decimal is the triple CPython keeps: sign, coefficient        *)
(* digits (most significant first, no leading zero) and exponent, so that  *)
(* str(), quantize() and the 28-digit context precision are computed as    *)
(* the interpreter computes them.                                          *)
(***************************************************************************)
EXTENDS Integers, Sequences, FiniteSets, TLC

VARIABLES
    op,        \* the operation last applied ("none" before any)
    invoice,   \* the InvoiceData / CreditNoteData the operation was given
    api_key,   \* the X-API-Key header of the request, None when there is none
    response,  \* what the operation returned or raised
    storage,   \* STORAGE_DIR: file name -> stored bytes
    clients,   \* the client keys _load_api_keys reads: name and key pairs
    xsd,       \* the schema file at XSD_PATH: "missing", "schema" or "corrupt"
    packager,  \* what generate_from_binary did in the last request: "none"
               \* when it was not called, "ok", or the exception it raised
    workers    \* the server processes that share STORAGE_DIR: for each, where
               \* it is in the generate request it serves

vars == <<op, invoice, api_key, response, storage, clients, xsd, packager,
          workers>>

-----------------------------------------------------------------------------
(* Sequences *)

Last(s) == s[Len(s)]

Front(s) == SubSeq(s, 1, Len(s) - 1)

Zeros(n) == [i \in 1..n |-> 0]

Rep(c, n) == [i \in 1..n |-> c]

Max(a, b) == IF a >= b THEN a ELSE b

Min(a, b) == IF a <= b THEN a ELSE b

\* index of the first occurrence of c in s, 0 when absent
IndexOf(s, c) ==
    IF \E i \in 1..Len(s) : s[i] = c
    THEN CHOOSE i \in 1..Len(s) : s[i] = c /\ \A j \in 1..(i - 1) : s[j] # c
    ELSE 0

-----------------------------------------------------------------------------
(* Natural numbers as digit sequences (the coefficient of a Decimal) *)

\* the coefficient without its leading zeros ("0" stays one digit)
StripLeading(ds) ==
    IF \A i \in 1..Len(ds) : ds[i] = 0
    THEN <<0>>
    ELSE LET first == CHOOSE i \in 1..Len(ds) :
                          ds[i] # 0 /\ \A j \in 1..(i - 1) : ds[j] = 0
         IN  SubSeq(ds, first, Len(ds))

IsZeroDigits(ds) == \A i \in 1..Len(ds) : ds[i] = 0

PadLeft(ds, n) == Zeros(n - Len(ds)) \o ds

\* a + b on digit sequences of one length n: the carry into position i comes
\* from a position to its right that overflows, through positions that sum to 9
AddDigits(a, b) ==
    LET n        == Len(a)
        carry(i) == IF \E j \in (i + 1)..n :
                            /\ a[j] + b[j] >= 10
                            /\ \A k \in (i + 1)..(j - 1) : a[k] + b[k] = 9
                    THEN 1 ELSE 0
    IN  <<carry(0)>> \o [i \in 1..n |-> (a[i] + b[i] + carry(i)) % 10]

NatAdd(a, b) ==
    LET n == Max(Len(a), Len(b))
    IN  StripLeading(AddDigits(PadLeft(a, n), PadLeft(b, n)))

\* a - b for a >= b on digit sequences of one length n: the borrow out of
\* position i comes from a position to its right where a's digit is smaller,
\* through positions where the digits are equal
SubDigits(a, b) ==
    LET n         == Len(a)
        borrow(i) == IF \E j \in (i + 1)..n :
                             /\ a[j] < b[j]
                             /\ \A k \in (i + 1)..(j - 1) : a[k] = b[k]
                     THEN 1 ELSE 0
    IN  [i \in 1..n |-> (a[i] - b[i] - borrow(i) + 10) % 10]

NatSub(a, b) ==
    LET n == Max(Len(a), Len(b))
    IN  StripLeading(SubDigits(PadLeft(a, n), PadLeft(b, n)))

\* -1, 0, 1 as a < b, a = b, a > b, on digit sequences of one length
CmpDigits(a, b) ==
    IF a = b
    THEN 0
    ELSE LET i == CHOOSE i \in 1..Len(a) :
                      a[i] # b[i] /\ \A j \in 1..(i - 1) : a[j] = b[j]
         IN  IF a[i] < b[i] THEN -1 ELSE 1

NatCmp(a, b) ==
    LET n == Max(Len(a), Len(b))
    IN  CmpDigits(PadLeft(a, n), PadLeft(b, n))

\* a small natural number as its digit sequence, and back
RECURSIVE NatDigits(_)
NatDigits(n) == IF n < 10 THEN <<n>> ELSE NatDigits(n \div 10) \o <<n % 10>>

RECURSIVE DigitsNat(_)
DigitsNat(ds) == IF ds = <<>> THEN 0 ELSE DigitsNat(Front(ds)) * 10 + Last(ds)

\* the digit of weight 10^p of a coefficient
DigitAt(ds, p) == IF p < Len(ds) THEN ds[Len(ds) - p] ELSE 0

\* the sum of the digit products of weight 10^k, over the digits 0..i of a
RECURSIVE ColumnSum(_, _, _, _)
ColumnSum(a, b, k, i) ==
    IF i < 0 THEN 0
    ELSE (IF k - i >= 0 THEN DigitAt(a, i) * DigitAt(b, k - i) ELSE 0)
         + ColumnSum(a, b, k, i - 1)

\* carry propagation over column sums, least significant last
RECURSIVE Carry(_, _)
Carry(cols, carry) ==
    IF cols = <<>>
    THEN IF carry = 0 THEN <<>> ELSE NatDigits(carry)
    ELSE LET s == Last(cols) + carry
         IN  IF s < 10
             THEN Carry(Front(cols), 0) \o <<s>>
             ELSE Carry(Front(cols), s \div 10) \o <<s % 10>>

NatMul(a, b) ==
    LET n    == Len(a) + Len(b)
        cols == [j \in 1..n |-> ColumnSum(a, b, n - j, Len(a) - 1)]
    IN  StripLeading(Carry(cols, 0))

-----------------------------------------------------------------------------
(* decimal.Decimal under the default context *)

\* decimal.getcontext().prec, the default context the code never changes
DecimalPrec == 28

Dec(sign, digits, exp) == [sign |-> sign, int |-> digits, exp |-> exp]

DecIsZero(x) == IsZeroDigits(x.int)

\* Decimal.adjusted()
Adjusted(x) == x.exp + Len(x.int) - 1

\* the rounding decision on the digits dropped after the first `keep`:
\* 1 to round the kept digits up, 0 to leave them
RoundHalfUp(ds, keep) == IF ds[keep + 1] >= 5 THEN 1 ELSE 0

ExactHalf(ds, keep) ==
    /\ ds[keep + 1] = 5
    /\ \A i \in (keep + 2)..Len(ds) : ds[i] = 0

RoundHalfEven(ds, keep) ==
    IF ExactHalf(ds, keep) /\ (keep = 0 \/ ds[keep] % 2 = 0)
    THEN 0
    ELSE RoundHalfUp(ds, keep)

\* Decimal._fix: round the coefficient to the context precision (ROUND_HALF_EVEN)
Fix(x) ==
    IF Len(x.int) <= DecimalPrec
    THEN x
    ELSE LET kept    == SubSeq(x.int, 1, DecimalPrec)
             up      == RoundHalfEven(x.int, DecimalPrec)
             coeff   == IF up = 1 THEN NatAdd(kept, <<1>>) ELSE kept
             dropped == Len(x.int) - DecimalPrec
         IN  IF Len(coeff) > DecimalPrec
             THEN Dec(x.sign, Front(coeff), x.exp + dropped + 1)
             ELSE Dec(x.sign, coeff, x.exp + dropped)

\* Decimal.__mul__
DecMul(a, b) ==
    LET sign == IF a.sign = b.sign THEN 0 ELSE 1
    IN  IF DecIsZero(a) \/ DecIsZero(b)
        THEN Fix(Dec(sign, <<0>>, a.exp + b.exp))
        ELSE Fix(Dec(sign, NatMul(a.int, b.int), a.exp + b.exp))

\* the exact sum of two Decimals, at the smaller of their exponents
ExactAdd(a, b) ==
    LET exp == Min(a.exp, b.exp)
        ai  == StripLeading(a.int \o Zeros(a.exp - exp))
        bi  == StripLeading(b.int \o Zeros(b.exp - exp))
        c   == NatCmp(ai, bi)
    IN  IF DecIsZero(a) /\ DecIsZero(b) THEN Dec(Min(a.sign, b.sign), <<0>>, exp)
        ELSE IF DecIsZero(a) THEN Dec(b.sign, bi, exp)
        ELSE IF DecIsZero(b) THEN Dec(a.sign, ai, exp)
        ELSE IF a.sign = b.sign THEN Dec(a.sign, NatAdd(ai, bi), exp)
        ELSE IF c = 0 THEN Dec(0, <<0>>, exp)
        ELSE IF c > 0 THEN Dec(a.sign, NatSub(ai, bi), exp)
        ELSE Dec(b.sign, NatSub(bi, ai), exp)

\* Decimal.__add__: the exact sum, rounded to the context precision by _fix
DecAdd(a, b) == Fix(ExactAdd(a, b))

\* the number of trailing zeros of a coefficient, at most n
RECURSIVE TrailingZeros(_, _)
TrailingZeros(ds, n) ==
    IF n = 0 \/ Len(ds) <= 1 \/ Last(ds) # 0
    THEN 0
    ELSE 1 + TrailingZeros(Front(ds), n - 1)

\* Decimal.__truediv__ by the int 100: the quotient is exact, and its
\* exponent is brought as near the ideal exponent (x.exp) as exactness allows
DecDiv100(x) ==
    IF DecIsZero(x)
    THEN Fix(Dec(x.sign, <<0>>, x.exp))
    ELSE LET z == TrailingZeros(x.int, 2)
         IN  Fix(Dec(x.sign, SubSeq(x.int, 1, Len(x.int) - z), x.exp - 2 + z))

\* Decimal._rescale(exp, ROUND_HALF_UP)
Rescale(x, exp) ==
    IF DecIsZero(x)
    THEN Dec(x.sign, <<0>>, exp)
    ELSE IF x.exp >= exp
    THEN Dec(x.sign, x.int \o Zeros(x.exp - exp), exp)
    ELSE LET digits0 == Len(x.int) + x.exp - exp
             ds      == IF digits0 < 0 THEN <<1>> ELSE x.int
             digits  == IF digits0 < 0 THEN 0 ELSE digits0
             kept    == IF digits = 0 THEN <<0>> ELSE SubSeq(ds, 1, digits)
             up      == RoundHalfUp(ds, digits)
         IN  Dec(x.sign, IF up = 1 THEN NatAdd(kept, <<1>>) ELSE kept, exp)

\* Decimal._rescale(exp, ROUND_HALF_EVEN), the rounding of the default context
RescaleHalfEven(x, exp) ==
    IF DecIsZero(x)
    THEN Dec(x.sign, <<0>>, exp)
    ELSE IF x.exp >= exp
    THEN Dec(x.sign, x.int \o Zeros(x.exp - exp), exp)
    ELSE LET digits0 == Len(x.int) + x.exp - exp
             ds      == IF digits0 < 0 THEN <<1>> ELSE x.int
             digits  == IF digits0 < 0 THEN 0 ELSE digits0
             kept    == IF digits = 0 THEN <<0>> ELSE SubSeq(ds, 1, digits)
             up      == RoundHalfEven(ds, digits)
         IN  Dec(x.sign, IF up = 1 THEN NatAdd(kept, <<1>>) ELSE kept, exp)

\* the end of Decimal.quantize: the rescaled value, unless its coefficient
\* has more digits than the context precision
Quantized(ans) ==
    IF Len(ans.int) > DecimalPrec THEN [ok |-> FALSE]
    ELSE [ok |-> TRUE, value |-> ans]

\* Decimal.quantize(Decimal("0." + "0" * decimals), rounding=ROUND_HALF_UP):
\* [ok |-> TRUE, value |-> d], or [ok |-> FALSE] for decimal.InvalidOperation
\* ("quantize result has too many digits for current context")
Quantize(x, decimals) ==
    IF DecIsZero(x)
    THEN [ok |-> TRUE, value |-> Dec(x.sign, <<0>>, -decimals)]
    ELSE IF Adjusted(x) + decimals + 1 > DecimalPrec
    THEN [ok |-> FALSE]
    ELSE Quantized(Rescale(x, -decimals))

\* Decimal._cmp on finite operands: -1, 0, 1
DecCmp(a, b) ==
    LET exp == Min(a.exp, b.exp)
        ai  == StripLeading(a.int \o Zeros(a.exp - exp))
        bi  == StripLeading(b.int \o Zeros(b.exp - exp))
        c   == NatCmp(ai, bi)
    IN  IF DecIsZero(a) /\ DecIsZero(b) THEN 0
        ELSE IF DecIsZero(a) THEN (IF b.sign = 1 THEN 1 ELSE -1)
        ELSE IF DecIsZero(b) THEN (IF a.sign = 1 THEN -1 ELSE 1)
        ELSE IF a.sign # b.sign THEN (IF a.sign = 1 THEN -1 ELSE 1)
        ELSE IF a.sign = 0 THEN c ELSE -c

DecEq(a, b) == DecCmp(a, b) = 0

DigitChars == <<"0", "1", "2", "3", "4", "5", "6", "7", "8", "9">>

DigitsToChars(ds) == [i \in 1..Len(ds) |-> DigitChars[ds[i] + 1]]

IsDigitChar(c) == \E i \in 1..10 : DigitChars[i] = c

DigitOfChar(c) == (CHOOSE i \in 1..10 : DigitChars[i] = c) - 1

CharsToDigits(cs) == [i \in 1..Len(cs) |-> DigitOfChar(cs[i])]

\* "%+d" % n
SignedIntChars(n) ==
    IF n < 0 THEN <<"-">> \o DigitsToChars(NatDigits(-n))
    ELSE <<"+">> \o DigitsToChars(NatDigits(n))

\* Decimal.__str__: plain notation when exp <= 0 and the number is not too
\* small, scientific notation otherwise
DecStr(x) ==
    LET leftdigits == x.exp + Len(x.int)
        dotplace   == IF x.exp <= 0 /\ leftdigits > -6 THEN leftdigits ELSE 1
        digits     == DigitsToChars(x.int)
        intpart    == IF dotplace <= 0 THEN <<"0">>
                      ELSE IF dotplace >= Len(digits)
                      THEN digits \o Rep("0", dotplace - Len(digits))
                      ELSE SubSeq(digits, 1, dotplace)
        fracpart   == IF dotplace <= 0
                      THEN <<".">> \o Rep("0", -dotplace) \o digits
                      ELSE IF dotplace >= Len(digits) THEN <<>>
                      ELSE <<".">> \o SubSeq(digits, dotplace + 1, Len(digits))
        exppart    == IF leftdigits = dotplace THEN <<>>
                      ELSE <<"E">> \o SignedIntChars(leftdigits - dotplace)
    IN  (IF x.sign = 1 THEN <<"-">> ELSE <<>>) \o intpart \o fracpart \o exppart

\* Decimal(string) for the strings Decimal.__str__ writes
DecParse(s) ==
    LET sign    == IF Len(s) > 0 /\ s[1] = "-" THEN 1 ELSE 0
        body    == IF sign = 1 THEN Tail(s) ELSE s
        posE    == IndexOf(body, "E")
        mant    == IF posE = 0 THEN body ELSE SubSeq(body, 1, posE - 1)
        expstr  == IF posE = 0 THEN <<>> ELSE SubSeq(body, posE + 1, Len(body))
        expneg  == Len(expstr) > 0 /\ expstr[1] = "-"
        expabs  == IF expstr = <<>> THEN 0 ELSE DigitsNat(CharsToDigits(Tail(expstr)))
        exp     == IF expneg THEN -expabs ELSE expabs
        posDot  == IndexOf(mant, ".")
        intpart == IF posDot = 0 THEN mant ELSE SubSeq(mant, 1, posDot - 1)
        frac    == IF posDot = 0 THEN <<>> ELSE SubSeq(mant, posDot + 1, Len(mant))
    IN  Dec(sign, StripLeading(CharsToDigits(intpart \o frac)), exp - Len(frac))

-----------------------------------------------------------------------------
(* app/models/invoice.py *)

\* Optional[str]: None is <<>>, a value v is <<v>>
None == <<>>

Some(v) == <<v>>

\* Python truthiness of an Optional[str]: None and "" are falsy
Truthy(o) == o # None /\ o[1] # <<>>

\* InvoiceLine.line_total
line_total(line) == DecMul(line.quantity, line.unit_price)

\* InvoiceLine.vat_amount: line_total * vat_rate / 100
vat_amount(line) == DecDiv100(DecMul(line_total(line), line.vat_rate))

DecZero == Dec(0, <<0>>, 0)

\* sum(...) over a sequence of Decimals: 0 + d1 + d2 + ..., left to right
RECURSIVE SumDec(_)
SumDec(ds) ==
    IF ds = <<>> THEN DecZero ELSE DecAdd(SumDec(Front(ds)), Last(ds))

\* InvoiceData.total_ht / CreditNoteData.total_ht
total_ht(inv) == SumDec([i \in 1..Len(inv.lines) |-> line_total(inv.lines[i])])

\* InvoiceData.total_vat / CreditNoteData.total_vat
total_vat(inv) == SumDec([i \in 1..Len(inv.lines) |-> vat_amount(inv.lines[i])])

\* InvoiceData.total_ttc / CreditNoteData.total_ttc
total_ttc(inv) == DecAdd(total_ht(inv), total_vat(inv))

-----------------------------------------------------------------------------
(* app/services/xml_generator.py *)

\* decimal.InvalidOperation and ValueError, the exceptions the serializer raises
InvalidOperation == "InvalidOperation"

ValueError == "ValueError"

\* a character lxml refuses in element text and attribute values
\* (a control character such as U+0001), written as one token
CtrlChar == "U+0001"

\* lxml: "All strings must be XML compatible: Unicode or ASCII, no NULL bytes
\* or control characters", raised as ValueError
XmlCompatible(str) == \A i \in 1..Len(str) : str[i] # CtrlChar

\* str() of a quantized value, or the exception quantize raised
Formatted(q) ==
    IF q.ok THEN [ok |-> TRUE, text |-> DecStr(q.value)]
    ELSE [ok |-> FALSE, exc |-> InvalidOperation]

\* _fmt(value, decimals): the quantized value's string, or the exception raised
_fmt(value, decimals) == Formatted(Quantize(value, decimals))

\* the text of an element or attribute that _e sets from a string
Text(str) ==
    IF XmlCompatible(str) THEN [ok |-> TRUE, text |-> str]
    ELSE [ok |-> FALSE, exc |-> ValueError]

\* the exceptions raised by a sequence of element constructions, in order
Raised(parts) ==
    SelectSeq([i \in 1..Len(parts) |-> IF parts[i].ok THEN "" ELSE parts[i].exc],
              LAMBDA e : e # "")

\* _add_date: the date string with its "-" removed
_add_date(date_str) == Text(SelectSeq(date_str, LAMBDA c : c # "-"))

\* _build_line: the texts of one line item's elements and attributes, in the
\* order the calls set them
_build_line(line, currency) ==
    << Text(line.id), Text(line.description),
       _fmt(line.unit_price, 2), Text(currency),
       _fmt(line.unit_price, 2), Text(currency),
       _fmt(line.quantity, 4), Text(line.unit),
       _fmt(line.vat_rate, 2),
       _fmt(line_total(line), 2), Text(currency) >>

\* the IncludedSupplyChainTradeLineItem element _build_line leaves
LineElement(p) ==
    [ LineID                |-> p[1].text,
      Name                  |-> p[2].text,
      GrossChargeAmount     |-> p[3].text,
      NetChargeAmount       |-> p[5].text,
      BilledQuantity        |-> p[7].text,
      unitCode              |-> p[8].text,
      TypeCode              |-> "VAT",
      CategoryCode          |-> "S",
      RateApplicablePercent |-> p[9].text,
      LineTotalAmount       |-> p[10].text ]

\* _build_party: the texts of one party's elements, in call order
_build_party(party) ==
    << Text(party.name), Text(party.siret), Text(party.address.postal_code),
       Text(party.address.street), Text(party.address.city),
       Text(party.address.country), Text(party.vat_number) >>

\* the SellerTradeParty / BuyerTradeParty element _build_party leaves
PartyElement(p) ==
    [ Name         |-> p[1].text,
      ID           |-> p[2].text,
      PostcodeCode |-> p[3].text,
      LineOne      |-> p[4].text,
      CityName     |-> p[5].text,
      CountryID    |-> p[6].text,
      TaxID        |-> p[7].text ]

\* the position of key in the insertion-ordered dict `groups`, 0 when absent
GroupIndex(groups, key) ==
    IF \E i \in 1..Len(groups) : groups[i].key = key
    THEN CHOOSE i \in 1..Len(groups) : groups[i].key = key
    ELSE 0

\* the first loop of _build_vat_breakdown: vat_groups, a defaultdict keyed by
\* str(line.vat_rate), whose items() are in insertion order
RECURSIVE vat_groups(_)
vat_groups(lines) ==
    IF lines = <<>>
    THEN <<>>
    ELSE LET groups == vat_groups(Front(lines))
             line   == Last(lines)
             key    == DecStr(line.vat_rate)
             i      == GroupIndex(groups, key)
         IN  IF i = 0
             THEN Append(groups,
                         [ key  |-> key,
                           base |-> DecAdd(DecZero, line_total(line)),
                           vat  |-> DecAdd(DecZero, vat_amount(line)) ])
             ELSE [groups EXCEPT
                     ![i].base = DecAdd(groups[i].base, line_total(line)),
                     ![i].vat  = DecAdd(groups[i].vat, vat_amount(line))]

\* the second loop of _build_vat_breakdown: the texts of one
\* ApplicableTradeTax per group, in call order
VatParts(groups, currency) ==
    [i \in 1..Len(groups) |->
        << _fmt(groups[i].vat, 2), Text(currency),
           _fmt(groups[i].base, 2), Text(currency),
           _fmt(DecParse(groups[i].key), 2) >>]

\* the groups sorted by rate: sorted(vat_groups.items(), ...) in place of
\* vat_groups.items()
SortedByRate(groups) ==
    LET rate(i) == DecParse(groups[i].key)
        pos(i)  == 1 + Cardinality({j \in 1..Len(groups) :
                          \/ DecCmp(rate(j), rate(i)) < 0
                          \/ DecCmp(rate(j), rate(i)) = 0 /\ j < i})
    IN  [p \in 1..Len(groups) |->
            groups[CHOOSE i \in 1..Len(groups) : pos(i) = p]]

\* _build_vat_breakdown with the second loop over the groups sorted by rate
_build_vat_breakdown_sorted(inv) ==
    VatParts(SortedByRate(vat_groups(inv.lines)), inv.currency)

_build_vat_breakdown(inv) == VatParts(vat_groups(inv.lines), inv.currency)

\* the ApplicableTradeTax element one pass of the second loop leaves
VatElement(p) ==
    [ CalculatedAmount      |-> p[1].text,
      TypeCode              |-> "VAT",
      BasisAmount           |-> p[3].text,
      CategoryCode          |-> "S",
      RateApplicablePercent |-> p[5].text ]

\* the element constructions of _build_totals, given the three totals
TotalsParts(ht, vat, ttc, currency) ==
    << _fmt(ht, 2), Text(currency),
       _fmt(ht, 2), Text(currency),
       _fmt(vat, 2), Text(currency),
       _fmt(ttc, 2), Text(currency),
       _fmt(ttc, 2), Text(currency) >>

\* _build_totals: the texts of the summation's elements, in call order
_build_totals(inv) ==
    TotalsParts(total_ht(inv), total_vat(inv), total_ttc(inv), inv.currency)

\* the SpecifiedTradeSettlementHeaderMonetarySummation element
TotalsElement(p) ==
    [ LineTotalAmount     |-> p[1].text,
      TaxBasisTotalAmount |-> p[3].text,
      TaxTotalAmount      |-> p[5].text,
      GrandTotalAmount    |-> p[7].text,
      DuePayableAmount    |-> p[9].text ]

RECURSIVE Flatten(_)
Flatten(seqs) == IF seqs = <<>> THEN <<>> ELSE Flatten(Front(seqs)) \o Last(seqs)

\* the body of generate_xml: the texts it sets, grouped as the calls group them
XmlTree(inv) ==
    [ header   |-> << Text(inv.invoice_number), _add_date(inv.issue_date) >>,
      lines    |-> [i \in 1..Len(inv.lines) |->
                       _build_line(inv.lines[i], inv.currency)],
      seller   |-> _build_party(inv.seller),
      buyer    |-> _build_party(inv.buyer),
      currency |-> << Text(inv.currency) >>,
      iban     |-> IF Truthy(inv.bank_iban)
                   THEN << Text(inv.bank_iban[1]) >> ELSE <<>>,
      vat      |-> _build_vat_breakdown(inv),
      totals   |-> _build_totals(inv) ]

\* every element construction of generate_xml, in call order
XmlParts(tree) ==
    tree.header \o Flatten(tree.lines) \o tree.seller \o tree.buyer
    \o tree.currency \o tree.iban \o Flatten(tree.vat) \o tree.totals

\* the document the constructions leave when none of them raises
Document(tree) ==
    [ GuidelineID         |-> "urn:cen.eu:en16931:2017#conformant#urn:factur-x.eu:1p0:extended",
      ID                  |-> tree.header[1].text,
      TypeCode            |-> "380",
      IssueDateTime       |-> tree.header[2].text,
      lines               |-> [i \in 1..Len(tree.lines) |-> LineElement(tree.lines[i])],
      SellerTradeParty    |-> PartyElement(tree.seller),
      BuyerTradeParty     |-> PartyElement(tree.buyer),
      InvoiceCurrencyCode |-> tree.currency[1].text,
      IBANID              |-> IF tree.iban = <<>> THEN None
                              ELSE Some(tree.iban[1].text),
      ApplicableTradeTax  |-> [i \in 1..Len(tree.vat) |-> VatElement(tree.vat[i])],
      MonetarySummation   |-> TotalsElement(tree.totals) ]

\* the first exception raised while building the tree, or the document
\* (etree.tostring writes it out element by element, so the bytes and the
\* document determine each other)
Serialized(tree) ==
    IF Raised(XmlParts(tree)) # <<>>
    THEN [ok |-> FALSE, exc |-> Raised(XmlParts(tree))[1]]
    ELSE [ok |-> TRUE, doc |-> Document(tree)]

\* generate_xml
generate_xml(inv) == Serialized(XmlTree(inv))

-----------------------------------------------------------------------------
(* app/main.py: the dry-run rule set *)

\* a decimal digit outside ASCII (U+0663, value 3), which \d and int() accept
UnicodeDigit == "U+0663"

\* \d of a str pattern
ReDigit(c) == IsDigitChar(c) \/ c = UnicodeDigit

\* $ after n characters: the end of the string, or just before a final newline
AtEnd(str, n) == Len(str) = n \/ (Len(str) = n + 1 /\ str[n + 1] = "\n")

\* re.match(r"^\d{n}$", str)
MatchDigits(str, n) ==
    /\ Len(str) >= n
    /\ \A i \in 1..n : ReDigit(str[i])
    /\ AtEnd(str, n)

\* re.match(r"^FR\d{n}$", str)
MatchFRDigits(str, n) ==
    /\ Len(str) >= n + 2
    /\ str[1] = "F" /\ str[2] = "R"
    /\ \A i \in 3..(n + 2) : ReDigit(str[i])
    /\ AtEnd(str, n + 2)

_valider_siret(siret) == MatchDigits(siret, 14)

_valider_tva_fr(tva) == MatchFRDigits(tva, 11)

_valider_iban_fr(iban) ==
    MatchFRDigits(SelectSeq(iban, LAMBDA c : c # " "), 25)

\* int() of a string of \d characters
DigitValue(c) == IF c = UnicodeDigit THEN 3 ELSE DigitOfChar(c)

IntOf(str) == DigitsNat([i \in 1..Len(str) |-> DigitValue(str[i])])

IsAscii(c, lo, hi) == IsDigitChar(c) /\ DigitOfChar(c) >= lo /\ DigitOfChar(c) <= hi

\* %m of strptime: 1[0-2]|0[1-9]|[1-9]
MatchMonth(str) ==
    \/ Len(str) = 2 /\ str[1] = "1" /\ IsAscii(str[2], 0, 2)
    \/ Len(str) = 2 /\ str[1] = "0" /\ IsAscii(str[2], 1, 9)
    \/ Len(str) = 1 /\ IsAscii(str[1], 1, 9)

\* %d of strptime: 3[01]|[12]\d|0[1-9]|[1-9]| [1-9]
MatchDay(str) ==
    \/ Len(str) = 2 /\ str[1] = "3" /\ IsAscii(str[2], 0, 1)
    \/ Len(str) = 2 /\ IsAscii(str[1], 1, 2) /\ ReDigit(str[2])
    \/ Len(str) = 2 /\ str[1] = "0" /\ IsAscii(str[2], 1, 9)
    \/ Len(str) = 1 /\ IsAscii(str[1], 1, 9)
    \/ Len(str) = 2 /\ str[1] = " " /\ IsAscii(str[2], 1, 9)

IsLeap(y) == y % 4 = 0 /\ (y % 100 # 0 \/ y % 400 = 0)

DaysInMonth(y, m) ==
    IF m = 2 THEN (IF IsLeap(y) THEN 29 ELSE 28)
    ELSE IF m \in {4, 6, 9, 11} THEN 30 ELSE 31

\* datetime.strptime(date_str, "%Y-%m-%d"): <<year, month, day>>, or <<>> for
\* ValueError (no match, unconverted data, or a date the calendar lacks)
strptime(date_str) ==
    LET n    == Len(date_str)
        rest == IF n >= 5 THEN SubSeq(date_str, 6, n) ELSE <<>>
        dash == IndexOf(rest, "-")
        mstr == SubSeq(rest, 1, dash - 1)
        dstr == SubSeq(rest, dash + 1, Len(rest))
        y    == IntOf(SubSeq(date_str, 1, 4))
        m    == IntOf(mstr)
        d    == IntOf(SelectSeq(dstr, LAMBDA c : c # " "))
    IN  IF /\ n >= 5
           /\ \A i \in 1..4 : ReDigit(date_str[i])
           /\ date_str[5] = "-"
           /\ dash > 0
           /\ MatchMonth(mstr)
           /\ MatchDay(dstr)
           /\ y >= 1
           /\ d <= DaysInMonth(y, m)
        THEN <<y, m, d>>
        ELSE <<>>

_valider_date(date_str) == strptime(date_str) # <<>>

\* the characters of the model's dates in code point order, for str < str
CodePoints ==
    <<CtrlChar, "\n", " ", "-", "/">> \o DigitChars \o <<UnicodeDigit>>

Ord(c) == CHOOSE i \in 1..Len(CodePoints) : CodePoints[i] = c

\* str.__lt__: lexicographic by code point, a proper prefix being smaller
StrLt(a, b) ==
    \E i \in 1..(Len(b)) :
        /\ \A j \in 1..(i - 1) : j <= Len(a) /\ a[j] = b[j]
        /\ \/ Len(a) = i - 1
           \/ Len(a) >= i /\ Ord(a[i]) < Ord(b[i])

\* float.as_integer_ratio of the literal 2.1, as an exact Decimal
\* (Decimal.from_float(2.1)): 2.100000000000000088817841970012523233890533447265625
Float_2_1 ==
    Dec(0, <<2,1,0,0,0,0,0,0,0,0,0,0,0,0,0,0,0,8,8,8,1,7,8,4,1,9,7,0,0,1,2,5,2,3,
             2,3,3,8,9,0,5,3,3,4,4,7,2,6,5,6,2,5>>, -51)

\* TAUX_TVA_VALIDES = [0, 2.1, 5.5, 8.5, 10, 20]: ints and floats, each compared
\* with a Decimal by its exact value
TAUX_TVA_VALIDES ==
    << DecZero, Float_2_1, Dec(0, <<5, 5>>, -1), Dec(0, <<8, 5>>, -1),
       Dec(0, <<1, 0>>, 0), Dec(0, <<2, 0>>, 0) >>

UNITES_VALIDES ==
    { <<"H", "U", "R">>, <<"E", "A">>, <<"D", "A", "Y">>,
      <<"M", "T", "R">>, <<"K", "G", "M">>, <<"L", "T", "R">>,
      <<"M", "T", "K">>, <<"C", "6", "2">>, <<"S", "E", "T">>,
      <<"M", "O", "N">> }

DEVISES_VALIDES ==
    { <<"E", "U", "R">>, <<"U", "S", "D">>, <<"G", "B", "P">>,
      <<"C", "H", "F">>, <<"J", "P", "Y">> }

PAYS_VALIDES ==
    { <<"F", "R">>, <<"D", "E">>, <<"E", "S">>,
      <<"I", "T">>, <<"B", "E">>, <<"N", "L">>,
      <<"P", "T">>, <<"L", "U">>, <<"A", "T">>,
      <<"G", "B">>, <<"C", "H">>, <<"U", "S">> }

FR == <<"F", "R">>

\* x in list, for a Decimal x: equal to some member
DecIn(x, list) == \E i \in 1..Len(list) : DecEq(x, list[i])

Msg(text) == [text |-> text, line |-> <<>>]

LineMsg(line, text) == [text |-> text, line |-> line.id]

When(cond, msg) == IF cond THEN <<msg>> ELSE <<>>

\* the rules of dry_run_invoice before the line loop: errors
HeaderErrors(inv) ==
    When(~_valider_siret(inv.seller.siret), Msg("SIRET vendeur invalide"))
    \o When(~_valider_siret(inv.buyer.siret), Msg("SIRET acheteur invalide"))
    \o When(~_valider_tva_fr(inv.seller.vat_number), Msg("Numero TVA vendeur invalide"))
    \o When(~_valider_tva_fr(inv.buyer.vat_number), Msg("Numero TVA acheteur invalide"))
    \o When(Truthy(inv.bank_iban) /\ ~_valider_iban_fr(inv.bank_iban[1]),
            Msg("IBAN invalide"))
    \o When(~_valider_date(inv.issue_date), Msg("Date emission invalide"))
    \o (IF Truthy(inv.due_date)
        THEN IF ~_valider_date(inv.due_date[1])
             THEN <<Msg("Date echeance invalide")>>
             ELSE When(StrLt(inv.due_date[1], inv.issue_date),
                       Msg("Date echeance anterieure a la date emission"))
        ELSE <<>>)
    \o When(inv.currency \notin DEVISES_VALIDES, Msg("Devise invalide"))
    \o When(inv.seller.address.country = FR
              /\ ~MatchDigits(inv.seller.address.postal_code, 5),
            Msg("Code postal vendeur invalide"))
    \o When(inv.buyer.address.country = FR
              /\ ~MatchDigits(inv.buyer.address.postal_code, 5),
            Msg("Code postal acheteur invalide"))

\* the rules of dry_run_invoice before the line loop: warnings
HeaderWarnings(inv) ==
    When(~Truthy(inv.bank_iban), Msg("IBAN manquant"))
    \o When(~Truthy(inv.due_date), Msg("Date echeance manquante"))
    \o When(~Truthy(inv.payment_terms), Msg("Conditions de paiement manquantes"))
    \o When(inv.seller.address.country \notin PAYS_VALIDES,
            Msg("Code pays vendeur inhabituel"))
    \o When(inv.buyer.address.country \notin PAYS_VALIDES,
            Msg("Code pays acheteur inhabituel"))

\* one pass of the line loop: errors
LineErrors(line) ==
    When(DecCmp(line.quantity, DecZero) <= 0, LineMsg(line, "quantite doit etre > 0"))
    \o When(DecCmp(line.unit_price, DecZero) < 0,
            LineMsg(line, "prix unitaire ne peut pas etre negatif"))

\* one pass of the line loop: warnings
LineWarnings(line) ==
    When(~DecIn(line.vat_rate, TAUX_TVA_VALIDES),
         LineMsg(line, "taux TVA inhabituel en France"))
    \o When(line.unit \notin UNITES_VALIDES, LineMsg(line, "unite non standard UN/ECE"))

\* the errors list dry_run_invoice has built when it reaches generate_xml
RuleErrors(inv) ==
    HeaderErrors(inv)
    \o Flatten([i \in 1..Len(inv.lines) |-> LineErrors(inv.lines[i])])

\* the warnings list dry_run_invoice has built when it reaches generate_xml
RuleWarnings(inv) ==
    HeaderWarnings(inv)
    \o Flatten([i \in 1..Len(inv.lines) |-> LineWarnings(inv.lines[i])])

\* dry_run_invoice stopping at the first rule that fails
dry_run_invoice_fail_fast(inv) ==
    LET xml == generate_xml(inv)
    IN  IF ~xml.ok
        THEN [status |-> 500, error |-> "Erreur dry run"]
        ELSE [ status         |-> 200,
               valid          |-> Len(RuleErrors(inv)) = 0,
               invoice_number |-> inv.invoice_number,
               total_ht       |-> DecStr(total_ht(inv)),
               total_vat      |-> DecStr(total_vat(inv)),
               total_ttc      |-> DecStr(total_ttc(inv)),
               errors         |-> SubSeq(RuleErrors(inv), 1, 1),
               warnings       |-> RuleWarnings(inv) ]

\* dry_run_invoice with the line loop ahead of the header rules
dry_run_invoice_lines_first(inv) ==
    LET xml == generate_xml(inv)
    IN  IF ~xml.ok
        THEN [status |-> 500, error |-> "Erreur dry run"]
        ELSE [ status         |-> 200,
               valid          |-> Len(RuleErrors(inv)) = 0,
               invoice_number |-> inv.invoice_number,
               total_ht       |-> DecStr(total_ht(inv)),
               total_vat      |-> DecStr(total_vat(inv)),
               total_ttc      |-> DecStr(total_ttc(inv)),
               errors         |->
                   Flatten([i \in 1..Len(inv.lines) |-> LineErrors(inv.lines[i])])
                   \o HeaderErrors(inv),
               warnings       |->
                   Flatten([i \in 1..Len(inv.lines) |-> LineWarnings(inv.lines[i])])
                   \o HeaderWarnings(inv) ]

\* the body of dry_run_invoice: the JSON it returns (duration_ms, a clock
\* reading, and xml_preview, a prefix of the XML text, are left out), or the
\* HTTPException(500) its except clause raises
dry_run_invoice(inv) ==
    LET xml == generate_xml(inv)
    IN  IF ~xml.ok
        THEN [status |-> 500, error |-> "Erreur dry run"]
        ELSE [ status         |-> 200,
               valid          |-> Len(RuleErrors(inv)) = 0,
               invoice_number |-> inv.invoice_number,
               total_ht       |-> DecStr(total_ht(inv)),
               total_vat      |-> DecStr(total_vat(inv)),
               total_ttc      |-> DecStr(total_ttc(inv)),
               errors         |-> RuleErrors(inv),
               warnings       |-> RuleWarnings(inv) ]

-----------------------------------------------------------------------------
(* The requests the checks draw from: the invoice of tests/test_api.py       *)
(* (INVOICE_JSON) and variations of its lines and of its header fields.      *)

\* the most lines an invoice of the serializer's inputs carries
MaxLines == 3

Digs(ds) == DigitsToChars(ds)

\* a JSON integer, float or numeric string as pydantic makes it a Decimal
DecOf(coeff, exp) == Dec(0, NatDigits(coeff), exp)

ValidSiret == Digs(<<1, 2, 3, 4, 5, 6, 7, 8, 9, 0, 0, 0, 1, 7>>)

ValidTva == <<"F", "R">> \o Digs(<<1, 2, 3, 4, 5, 6, 7, 8, 9, 0, 0>>)

\* "FR7630006000011234567890189"
ValidIban ==
    <<"F", "R">> \o Digs(<<7, 6, 3, 0, 0, 0, 6, 0, 0, 0, 0, 1, 1, 2, 3, 4, 5, 6, 7,
                           8, 9, 0, 1, 8, 9>>)

\* "2024-06-01", "2024-07-01"
Date(y, m, d) == y \o <<"-">> \o m \o <<"-">> \o d

Y2024 == <<"2", "0", "2", "4">>

IssueDate == Date(Y2024, <<"0", "6">>, <<"0", "1">>)

DueDate == Date(Y2024, <<"0", "7">>, <<"0", "1">>)

Paris == [street |-> <<"r">>, city |-> <<"P">>, postal_code |-> Digs(<<7, 5, 0, 0, 1>>),
          country |-> FR]

Seller == [name |-> <<"A">>, siret |-> ValidSiret, vat_number |-> ValidTva,
           address |-> Paris, email |-> None]

Buyer == [name |-> <<"C">>, siret |-> ValidSiret, vat_number |-> ValidTva,
          address |-> Paris, email |-> None]

Line(id, quantity, unit_price, vat_rate) ==
    [id |-> id, description |-> <<"T">>, quantity |-> quantity, unit |-> <<"E", "A">>,
     unit_price |-> unit_price, vat_rate |-> vat_rate]

\* quantity 1, unit price 100, VAT rate 20.0: the line of INVOICE_JSON
TestLine == Line(<<"1">>, DecOf(1, 0), DecOf(100, 0), DecOf(200, -1))

\* lines of the serializer's inputs: rates 20.0, 20, 5.5, 0; amounts of a few
\* digits, of a fraction of a cent, and of 26 and 28 integer digits
LineChoices ==
    { TestLine,
      Line(<<"2">>, DecOf(2, 0), DecOf(1250, -2), DecOf(20, 0)),
      Line(<<"3">>, DecOf(1, 0), DecOf(10, 0), DecOf(55, -1)),
      Line(<<"4">>, DecOf(1, 0), DecOf(4, -3), DecOf(20, 0)),
      Line(<<"5">>, DecOf(1, 0), DecOf(1, 25), DecOf(0, 0)),
      Line(<<"6">>, DecOf(1, 0), DecOf(1, 27), DecOf(20, 0)),
      Line(<<"7">>, DecOf(1, 0), DecOf(10, 0), DecOf(5504, -3)) }

\* INVOICE_JSON
TestInvoice ==
    [ invoice_number |-> <<"T", "1">>,
      issue_date     |-> IssueDate,
      due_date       |-> Some(DueDate),
      currency       |-> <<"E", "U", "R">>,
      seller         |-> Seller,
      buyer          |-> Buyer,
      lines          |-> <<TestLine>>,
      payment_terms  |-> Some(<<"V">>),
      bank_iban      |-> Some(ValidIban) ]

LineSeqs == UNION {[1..n -> LineChoices] : n \in 1..MaxLines}

\* the serializer's inputs: INVOICE_JSON with every sequence of 1..MaxLines lines
XmlInputs == {[TestInvoice EXCEPT !.lines = ls] : ls \in LineSeqs}

NoRequest == [none |-> TRUE]

NoResponse == [status |-> 0]

----------------------------------------------------------------------------
(* The serializer applied to an invoice *)

InitXml ==
    /\ op = "none"
    /\ invoice \in XmlInputs
    /\ response = NoResponse
    /\ api_key = None
    /\ storage = <<>>
    /\ clients = <<>>
    /\ xsd = "missing"
    /\ packager = "none"
    /\ workers = <<>>

\* generate_xml(invoice)
GenerateXml ==
    /\ op = "none"
    /\ op' = "generate_xml"
    /\ response' = generate_xml(invoice)
    /\ UNCHANGED <<invoice, api_key, storage, clients, xsd, packager, workers>>

NextXml == GenerateXml

SpecXml == InitXml /\ [][NextXml]_vars

----------------------------------------------------------------------------
(* The dry run applied to an invoice *)

Germany == [street |-> <<"s">>, city |-> <<"B">>, postal_code |-> <<"D", "-", "1">>,
            country |-> <<"D", "E">>]

\* the header fields and lines INVOICE_JSON is varied by, one at a time
Variant(inv, k) ==
    CASE k = 0  -> inv
      [] k = 1  -> [inv EXCEPT !.seller.siret = Digs(<<1, 2, 3>>)]
      [] k = 2  -> [inv EXCEPT !.buyer.siret = ValidSiret \o <<"\n">>]
      [] k = 3  -> [inv EXCEPT !.seller.vat_number = <<"F", "R">> \o Digs(<<1, 2, 3, 4>>)]
      [] k = 4  -> [inv EXCEPT !.buyer.vat_number = <<"D", "E">> \o Digs(<<1, 2, 3, 4, 5, 6, 7, 8, 9, 0, 0>>)]
      [] k = 5  -> [inv EXCEPT !.bank_iban = None]
      [] k = 6  -> [inv EXCEPT !.bank_iban = Some(<<>>)]
         \* "FR76 3000 6000 0112 3456 7890 189"
      [] k = 7  -> [inv EXCEPT !.bank_iban =
                       Some(<<"F", "R">> \o Digs(<<7, 6>>) \o <<" ">>
                            \o Digs(<<3, 0, 0, 0>>) \o <<" ">> \o Digs(<<6, 0, 0, 0>>)
                            \o <<" ">> \o Digs(<<0, 1, 1, 2>>) \o <<" ">>
                            \o Digs(<<3, 4, 5, 6>>) \o <<" ">> \o Digs(<<7, 8, 9, 0>>)
                            \o <<" ">> \o Digs(<<1, 8, 9>>))]
         \* "FR76300060000112345678901AB": FR and 25 characters, two of them letters
      [] k = 8  -> [inv EXCEPT !.bank_iban =
                       Some(SubSeq(ValidIban, 1, 25) \o <<"A", "B">>)]
         \* "DE7630006000011234567890189"
      [] k = 9  -> [inv EXCEPT !.bank_iban = Some(<<"D", "E">> \o SubSeq(ValidIban, 3, 27))]
         \* "FR76"
      [] k = 10 -> [inv EXCEPT !.bank_iban = Some(SubSeq(ValidIban, 1, 4))]
         \* "2024-6-01"
      [] k = 11 -> [inv EXCEPT !.issue_date = Date(Y2024, <<"6">>, <<"0", "1">>)]
         \* "01/06/2024"
      [] k = 12 -> [inv EXCEPT !.issue_date =
                       <<"0", "1", "/", "0", "6", "/">> \o Y2024]
      [] k = 13 -> [inv EXCEPT !.due_date = None]
      [] k = 14 -> [inv EXCEPT !.due_date = Some(<<>>)]
         \* "2024-10-01"
      [] k = 15 -> [inv EXCEPT !.due_date = Some(Date(Y2024, <<"1", "0">>, <<"0", "1">>))]
         \* "2024-05-01"
      [] k = 16 -> [inv EXCEPT !.due_date = Some(Date(Y2024, <<"0", "5">>, <<"0", "1">>))]
         \* "2024-02-30"
      [] k = 17 -> [inv EXCEPT !.due_date = Some(Date(Y2024, <<"0", "2">>, <<"3", "0">>))]
         \* "2024-06-01", the issue date of INVOICE_JSON
      [] k = 18 -> [inv EXCEPT !.due_date = Some(IssueDate)]
      [] k = 19 -> [inv EXCEPT !.payment_terms = None]
      [] k = 20 -> [inv EXCEPT !.currency = <<"X", "Y", "Z">>]
      [] k = 21 -> [inv EXCEPT !.seller.address = Germany]
      [] k = 22 -> [inv EXCEPT !.seller.address.country = <<"X", "X">>]
      [] k = 23 -> [inv EXCEPT !.seller.address.postal_code = Digs(<<7, 5, 0, 0>>)]
      [] k = 24 -> [inv EXCEPT !.buyer.address = Germany]
      [] k = 25 -> [inv EXCEPT !.buyer.address.postal_code = <<"7", "5", "A", "0", "1">>]
         \* quantity 0
      [] k = 26 -> [inv EXCEPT !.lines[1].quantity = DecOf(0, 0)]
         \* unit price -5
      [] k = 27 -> [inv EXCEPT !.lines[1].unit_price = Dec(1, <<5>>, 0)]
         \* VAT rates 19, 2.1, 5.5, 20 (an int), 2.10
      [] k = 28 -> [inv EXCEPT !.lines[1].vat_rate = DecOf(19, 0)]
      [] k = 29 -> [inv EXCEPT !.lines[1].vat_rate = DecOf(21, -1)]
      [] k = 30 -> [inv EXCEPT !.lines[1].vat_rate = DecOf(55, -1)]
      [] k = 31 -> [inv EXCEPT !.lines[1].vat_rate = DecOf(20, 0)]
      [] k = 32 -> [inv EXCEPT !.lines[1].unit = <<"X", "Y", "Z">>]
         \* unit price 1E+27
      [] k = 33 -> [inv EXCEPT !.lines[1].unit_price = DecOf(1, 27)]
         \* a second line: quantity -1, unit price 10, VAT rate 8.5
      [] k = 34 -> [inv EXCEPT !.lines = @ \o
                       <<Line(<<"2">>, Dec(1, <<1>>, 0), DecOf(10, 0), DecOf(85, -1))>>]
      [] k = 35 -> [inv EXCEPT !.invoice_number = <<"T", CtrlChar>>]

VariantIds == 0..35

\* the dry run's inputs: INVOICE_JSON varied in at most two places
DryRunInputs ==
    {Variant(Variant(TestInvoice, j), k) : j \in VariantIds, k \in VariantIds}

InitDryRun ==
    /\ op = "none"
    /\ invoice \in DryRunInputs
    /\ response = NoResponse
    /\ api_key = None
    /\ storage = <<>>
    /\ clients = <<>>
    /\ xsd = "missing"
    /\ packager = "none"
    /\ workers = <<>>

\* dry_run_invoice(invoice)
DryRun ==
    /\ op = "none"
    /\ op' = "dry_run"
    /\ response' = dry_run_invoice(invoice)
    /\ UNCHANGED <<invoice, api_key, storage, clients, xsd, packager, workers>>

NextDryRun == DryRun

SpecDryRun == InitDryRun /\ [][NextDryRun]_vars

-----------------------------------------------------------------------------
(* app/services/xml_validator.py                                            *)

MsgXsdMissing == "XSD non disponible, validation ignoree"

\* validate_xml(xml_bytes) -> (is_valid, errors). The schema file is outside
\* the repository: `schema_valid` is the verdict schema.validate gives on a
\* well-formed document, `well_formed` whether etree.fromstring parses it.
validate_xml(xml_bytes, well_formed, schema_valid) ==
    IF xsd = "missing"
    THEN [is_valid |-> TRUE, errors |-> <<MsgXsdMissing>>]
    ELSE IF xsd = "corrupt"
    THEN [is_valid |-> FALSE, errors |-> <<"Erreur validation">>]
    ELSE IF ~well_formed
    THEN [is_valid |-> FALSE, errors |-> <<"XML malforme">>]
    ELSE IF schema_valid
    THEN [is_valid |-> TRUE, errors |-> <<>>]
    ELSE [is_valid |-> FALSE, errors |-> <<"schema.error_log">>]

InitValidate ==
    /\ op = "none"
    /\ invoice \in {inv \in XmlInputs : generate_xml(inv).ok}
    /\ response = NoResponse
    /\ api_key = None
    /\ storage = <<>>
    /\ clients = <<>>
    /\ xsd \in {"missing", "schema", "corrupt"}
    /\ packager = "none"
    /\ workers = <<>>

\* validate_xml applied to the bytes generate_xml gives for the invoice, or to
\* bytes that are not XML
ValidateXml ==
    /\ op = "none"
    /\ op' = "validate_xml"
    /\ \E well_formed, schema_valid \in BOOLEAN :
          response' = validate_xml(generate_xml(invoice).doc, well_formed,
                                   schema_valid)
    /\ UNCHANGED <<invoice, api_key, storage, clients, xsd, packager, workers>>

NextValidate == ValidateXml

SpecValidate == InitValidate /\ [][NextValidate]_vars

-----------------------------------------------------------------------------
(* app/services/pdf_generator.py and app/services/facturx_builder.py        *)

AttributeError == "AttributeError"

ImportError == "ImportError"

FileNotFoundError == "FileNotFoundError"

Exception == "Exception"

\* format(value, ".<decimals>f") of a Decimal: rounded as the context rounds
FormatF(value, decimals) == DecStr(RescaleHalfEven(value, -decimals))

\* generate_pdf: what the page shows (the bytes reportlab lays out from it)
generate_pdf(inv) ==
    IF "due_date" \notin DOMAIN inv
    THEN [ok |-> FALSE, exc |-> AttributeError]
    ELSE [ ok    |-> TRUE,
           bytes |->
             [ invoice_number |-> inv.invoice_number,
               issue_date     |-> inv.issue_date,
               due_date       |-> IF Truthy(inv.due_date) THEN inv.due_date ELSE None,
               seller         |-> inv.seller,
               buyer          |-> inv.buyer,
               lines          |->
                 [i \in 1..Len(inv.lines) |->
                    LET line == inv.lines[i]
                    IN  << line.id, line.description, DecStr(line.quantity),
                           line.unit, FormatF(line.unit_price, 2),
                           FormatF(line.vat_rate, 0),
                           FormatF(line_total(line), 2) >>],
               total_ht       |-> FormatF(total_ht(inv), 2),
               total_vat      |-> FormatF(total_vat(inv), 2),
               total_ttc      |-> FormatF(total_ttc(inv), 2),
               payment_terms  |-> IF Truthy(inv.payment_terms)
                                  THEN inv.payment_terms ELSE None,
               bank_iban      |-> IF Truthy(inv.bank_iban)
                                  THEN inv.bank_iban ELSE None ] ]

\* what generate_from_binary (the Packager, outside the repository) does with
\* the page and the XML: it returns the combined document or raises
PackagerOutcomes == {"ok", ValueError, Exception}

\* build_facturx: the Packager's result, its exceptions raised again
build_facturx(pdf_bytes, xml_bytes, outcome) ==
    IF outcome = "ok"
    THEN [ok |-> TRUE, bytes |-> [pdf |-> pdf_bytes, xml |-> xml_bytes]]
    ELSE [ok |-> FALSE, exc |-> outcome]

-----------------------------------------------------------------------------
(* app/main.py: the /v1 endpoints                                           *)

\* verify_api_key: the name of the first client whose key is the header's
\* value, None when no client has it (HTTPException 403)
verify_api_key(key) ==
    LET matching == {i \in 1..Len(clients) : key = clients[i].key}
    IN  IF matching = {} THEN None
        ELSE Some(clients[CHOOSE i \in matching : \A j \in matching : i <= j].name)

Forbidden == [status |-> 403, error |-> "Cle API invalide ou manquante"]

\* raise HTTPException(400) for a ValueError, HTTPException(500) otherwise
Failure(exc) ==
    IF exc = ValueError
    THEN [status |-> 400, error |-> exc]
    ELSE [status |-> 500, error |-> "Erreur interne", message |-> exc]

\* STORAGE_DIR / filename: a name with "/" in it is a path into a directory
\* that nothing creates
Writable(number) == \A i \in 1..Len(number) : number[i] # "/"

\* with open(filepath, "wb") as f: f.write(facturx_bytes)
Write(files, filename, bytes) ==
    [f \in DOMAIN files \cup {filename} |->
        IF f = filename THEN bytes ELSE files[f]]

\* the try block writing the page to the file before it is packaged
Store_page_first(filename, number, xml, pdf, facturx) ==
    IF ~xml.ok THEN [response |-> Failure(xml.exc), storage |-> storage]
    ELSE IF ~pdf.ok THEN [response |-> Failure(pdf.exc), storage |-> storage]
    ELSE IF ~Writable(number)
    THEN [response |-> Failure(FileNotFoundError), storage |-> storage]
    ELSE IF ~facturx.ok
    THEN [ response |-> Failure(facturx.exc),
           storage  |-> Write(storage, filename, pdf.bytes) ]
    ELSE [ response |-> [ status   |-> 200,
                          content  |-> facturx.bytes,
                          filename |-> filename ],
           storage  |-> Write(storage, filename, facturx.bytes) ]

\* the end of the try block of generate_invoice and of generate_credit_note:
\* the response and the storage it leaves, given what generate_xml (or
\* generate_credit_note_xml), generate_pdf and build_facturx returned or raised
Store(filename, number, xml, pdf, facturx) ==
    IF ~xml.ok THEN [response |-> Failure(xml.exc), storage |-> storage]
    ELSE IF ~pdf.ok THEN [response |-> Failure(pdf.exc), storage |-> storage]
    ELSE IF ~facturx.ok
    THEN [response |-> Failure(facturx.exc), storage |-> storage]
    ELSE IF ~Writable(number)
    THEN [response |-> Failure(FileNotFoundError), storage |-> storage]
    ELSE [ response |-> [ status   |-> 200,
                          content  |-> facturx.bytes,
                          filename |-> filename ],
           storage  |-> Write(storage, filename, facturx.bytes) ]

\* build_facturx on what the two generators returned, when both returned
Package(xml, pdf, outcome) ==
    IF xml.ok /\ pdf.ok THEN build_facturx(pdf.bytes, xml.doc, outcome)
    ELSE [ok |-> FALSE, exc |-> Exception]

\* what the Packager did in a request: it is called when both generators
\* returned
Called(xml, pdf, outcome) == IF xml.ok /\ pdf.ok THEN outcome ELSE "none"

\* the try block of generate_invoice and of generate_credit_note, after the
\* XML is made
Issue(prefix, inv, xml, pdf, outcome) ==
    Store(<<prefix, inv.invoice_number>>, inv.invoice_number, xml, pdf,
          Package(xml, pdf, outcome))

\* generate_credit_note_xml: main.py imports it from xml_generator.py, which
\* does not define it. The endpoints are modelled as they run once main.py
\* is loaded, the missing name failing where it is used.
generate_credit_note_xml(note) == [ok |-> FALSE, exc |-> ImportError]

----------------------------------------------------------------------------
(* Claims about the serializer (SpecXml) *)

XmlDone == op = "generate_xml" /\ response.ok

RECURSIVE ExactSum(_)
ExactSum(ds) ==
    IF ds = <<>> THEN DecZero ELSE ExactAdd(ExactSum(Front(ds)), Last(ds))

Blocks == response.doc.ApplicableTradeTax

Rates == [i \in 1..Len(invoice.lines) |-> invoice.lines[i].vat_rate]

\* the lines that are the first to carry their VAT rate value
FirstLines == {i \in 1..Len(Rates) : \A j \in 1..(i - 1) : ~DecEq(Rates[j], Rates[i])}

\* the blocks whose rate is r, as the serializer formats it
BlocksOf(r) ==
    {b \in 1..Len(Blocks) : Blocks[b].RateApplicablePercent = _fmt(r, 2).text}

FirstBlock(r) == CHOOSE b \in BlocksOf(r) : \A c \in BlocksOf(r) : b <= c

\* C2: the VAT breakdown loses and double-counts nothing: the exact sum of the
\* group bases is total_ht and the exact sum of the group taxes is total_vat.
C2_GroupSumsEqualTotals ==
    XmlDone =>
        LET groups == vat_groups(invoice.lines)
        IN  /\ DecEq(ExactSum([i \in 1..Len(groups) |-> groups[i].base]),
                     total_ht(invoice))
            /\ DecEq(ExactSum([i \in 1..Len(groups) |-> groups[i].vat]),
                     total_vat(invoice))

\* C3: as many VAT breakdown blocks are emitted as the lines have distinct VAT
\* rate values, whatever the decimal representation of the rates.
C3_OneBlockPerRateValue ==
    XmlDone => Len(Blocks) = Cardinality(FirstLines)

\* the printed rates of the lines in FirstLines among the first n, in line order
RECURSIVE FirstSeenRates(_)
FirstSeenRates(n) ==
    IF n = 0 THEN <<>>
    ELSE IF n \in FirstLines
         THEN Append(FirstSeenRates(n - 1), _fmt(Rates[n], 2).text)
         ELSE FirstSeenRates(n - 1)

\* s is t with some of its elements left out
RECURSIVE IsSubsequence(_, _)
IsSubsequence(s, t) ==
    IF s = <<>> THEN TRUE
    ELSE IF t = <<>> THEN FALSE
    ELSE IF Head(s) = Head(t) THEN IsSubsequence(Tail(s), Tail(t))
    ELSE IsSubsequence(s, Tail(t))

\* C4: the VAT breakdown blocks are in first-seen order: the distinct rates,
\* taken in the order of the lines that first carry them, each have a block, and
\* these blocks follow one another in that same order (of two distinct rates,
\* the block of the one whose first line comes first is emitted first).
C4_FirstSeenOrder ==
    XmlDone =>
        IsSubsequence(FirstSeenRates(Len(Rates)),
                      [b \in 1..Len(Blocks) |-> Blocks[b].RateApplicablePercent])

\* C4's case: two blocks are emitted, the greater rate first
C4_Witness ==
    /\ XmlDone
    /\ Len(Blocks) >= 2
    /\ \E i, j \in FirstLines :
          /\ i < j
          /\ DecCmp(Rates[i], Rates[j]) > 0
          /\ FirstBlock(Rates[i]) < FirstBlock(Rates[j])

\* the decimal an emitted amount reads as
Amount(text) == DecParse(text)

Summation == response.doc.MonetarySummation

\* C17: the rounded amounts of the header summation are consistent: the emitted
\* GrandTotalAmount is the emitted TaxBasisTotalAmount plus the emitted
\* TaxTotalAmount, and the emitted TaxTotalAmount is the sum of the emitted
\* CalculatedAmount of the VAT breakdown blocks.
C17_SummationConsistent ==
    XmlDone =>
        /\ DecEq(Amount(Summation.GrandTotalAmount),
                 ExactAdd(Amount(Summation.TaxBasisTotalAmount),
                          Amount(Summation.TaxTotalAmount)))
        /\ DecEq(Amount(Summation.TaxTotalAmount),
                 ExactSum([b \in 1..Len(Blocks) |->
                              Amount(Blocks[b].CalculatedAmount)]))

----------------------------------------------------------------------------
(* Claims about the dry run (SpecDryRun) *)

DryRunDone == op = "dry_run"

HasMsg(list, text) == \E i \in 1..Len(list) : list[i].text = text

HasLineMsg(list, line, text) ==
    \E i \in 1..Len(list) : list[i].text = text /\ list[i].line = line.id

\* the error rules of the rule table the invoice violates, by their message
ViolatedErrorRules(inv) ==
    {t \in {"SIRET vendeur invalide"} : ~_valider_siret(inv.seller.siret)}
    \cup {t \in {"SIRET acheteur invalide"} : ~_valider_siret(inv.buyer.siret)}
    \cup {t \in {"Numero TVA vendeur invalide"} : ~_valider_tva_fr(inv.seller.vat_number)}
    \cup {t \in {"Numero TVA acheteur invalide"} : ~_valider_tva_fr(inv.buyer.vat_number)}
    \cup {t \in {"IBAN invalide"} :
            Truthy(inv.bank_iban) /\ ~_valider_iban_fr(inv.bank_iban[1])}
    \cup {t \in {"Date emission invalide"} : ~_valider_date(inv.issue_date)}
    \cup {t \in {"Date echeance invalide"} :
            Truthy(inv.due_date) /\ ~_valider_date(inv.due_date[1])}
    \cup {t \in {"Date echeance anterieure a la date emission"} :
            /\ Truthy(inv.due_date)
            /\ _valider_date(inv.due_date[1])
            /\ StrLt(inv.due_date[1], inv.issue_date)}
    \cup {t \in {"Devise invalide"} : inv.currency \notin DEVISES_VALIDES}
    \cup {t \in {"Code postal vendeur invalide"} :
            /\ inv.seller.address.country = FR
            /\ ~MatchDigits(inv.seller.address.postal_code, 5)}
    \cup {t \in {"Code postal acheteur invalide"} :
            /\ inv.buyer.address.country = FR
            /\ ~MatchDigits(inv.buyer.address.postal_code, 5)}
    \cup {t \in {"quantite doit etre > 0"} :
            \E i \in 1..Len(inv.lines) : DecCmp(inv.lines[i].quantity, DecZero) <= 0}
    \cup {t \in {"prix unitaire ne peut pas etre negatif"} :
            \E i \in 1..Len(inv.lines) : DecCmp(inv.lines[i].unit_price, DecZero) < 0}

\* C5 as claimed: every structurally valid invoice gets a response with its
\* diagnostics and totals.
C5_AlwaysDiagnostics == DryRunDone => response.status = 200

\* C5 as amended: an invoice the serializer can serialize gets one response
\* carrying every violated rule's message and the three computed totals,
\* valid or not; an invoice it cannot serialize gets HTTP 500 and nothing else.
C5_DiagnosticsWhenSerializable ==
    DryRunDone =>
        IF generate_xml(invoice).ok
        THEN /\ response.status = 200
             /\ \A t \in ViolatedErrorRules(invoice) : HasMsg(response.errors, t)
             /\ response.valid = (ViolatedErrorRules(invoice) = {})
             /\ response.total_ht = DecStr(total_ht(invoice))
             /\ response.total_vat = DecStr(total_vat(invoice))
             /\ response.total_ttc = DecStr(total_ttc(invoice))
        ELSE response.status = 500

\* C5's case: a response that reports two violated rules, with the totals
C5_Witness ==
    /\ DryRunDone
    /\ response.status = 200
    /\ Cardinality(ViolatedErrorRules(invoice)) >= 2
    /\ ~response.valid
    /\ Len(response.total_ttc) > 0

\* a string without its spaces
RECURSIVE NoSpaces(_)
NoSpaces(str) ==
    IF str = <<>> THEN <<>>
    ELSE IF str[1] = " " THEN NoSpaces(Tail(str))
    ELSE <<str[1]>> \o NoSpaces(Tail(str))

\* "FR" followed by 25 characters, spaces not counted
FrPlus25(str) ==
    LET t == NoSpaces(str)
    IN  Len(t) = 27 /\ t[1] = "F" /\ t[2] = "R"

\* C6: a supplied IBAN that is FR followed by 25 characters gives no IBAN
\* error; any other supplied IBAN, the empty string included, gives the IBAN
\* error; an absent IBAN gives the missing-IBAN warning and no error.
C6_IbanRule ==
    (DryRunDone /\ response.status = 200) =>
        IF invoice.bank_iban = None
        THEN /\ ~HasMsg(response.errors, "IBAN invalide")
             /\ HasMsg(response.warnings, "IBAN manquant")
        ELSE HasMsg(response.errors, "IBAN invalide")
                 <=> ~FrPlus25(invoice.bank_iban[1])

\* the calendar order of two dates <<year, month, day>>
DateLt(a, b) ==
    \/ a[1] < b[1]
    \/ a[1] = b[1] /\ a[2] < b[2]
    \/ a[1] = b[1] /\ a[2] = b[2] /\ a[3] < b[3]

\* C7: when the issue date and a supplied due date both pass the format check,
\* the earlier-due-date error is reported exactly when the due date is the
\* earlier calendar date; an absent due date gives a warning and no error.
C7_DueDateOrder ==
    (DryRunDone /\ response.status = 200) =>
        /\ invoice.due_date = None =>
              /\ HasMsg(response.warnings, "Date echeance manquante")
              /\ ~HasMsg(response.errors, "Date echeance invalide")
              /\ ~HasMsg(response.errors,
                         "Date echeance anterieure a la date emission")
        /\ (/\ Truthy(invoice.due_date)
            /\ _valider_date(invoice.due_date[1])
            /\ _valider_date(invoice.issue_date)) =>
              (HasMsg(response.errors,
                      "Date echeance anterieure a la date emission")
                 <=> DateLt(strptime(invoice.due_date[1]),
                            strptime(invoice.issue_date)))

\* the domestic VAT rates, as exact decimal values
DomesticRates ==
    {DecOf(0, 0), DecOf(21, -1), DecOf(55, -1), DecOf(85, -1), DecOf(10, 0),
     DecOf(20, 0)}

\* C8: a line gets the unusual-VAT-rate warning exactly when its rate is not
\* one of the domestic rates compared as exact decimals, and never an error
\* for its rate.
C8_VatRateWarning ==
    (DryRunDone /\ response.status = 200) =>
        \A i \in 1..Len(invoice.lines) :
            LET line == invoice.lines[i]
            IN  /\ HasLineMsg(response.warnings, line,
                              "taux TVA inhabituel en France")
                      <=> ~(\E r \in DomesticRates : DecEq(line.vat_rate, r))
                /\ ~HasLineMsg(response.errors, line,
                               "taux TVA inhabituel en France")

\* the rules in the order the claim gives them, by their messages: errors
ErrorOrder ==
    << "SIRET vendeur invalide", "SIRET acheteur invalide",
       "Numero TVA vendeur invalide", "Numero TVA acheteur invalide",
       "IBAN invalide",
       "Date emission invalide", "Date echeance invalide",
       "Date echeance anterieure a la date emission",
       "Devise invalide",
       "Code postal vendeur invalide", "Code postal acheteur invalide" >>

\* and warnings
WarningOrder ==
    << "IBAN manquant", "Date echeance manquante",
       "Conditions de paiement manquantes",
       "Code pays vendeur inhabituel", "Code pays acheteur inhabituel" >>

LineErrorOrder == <<"quantite doit etre > 0", "prix unitaire ne peut pas etre negatif">>

LineWarningOrder == <<"taux TVA inhabituel en France", "unite non standard UN/ECE">>

\* every message the rules can give for the lines, in rule order: the header
\* rules, then the line rules line after line
InOrder(header, perline, lines) ==
    [i \in 1..Len(header) |-> Msg(header[i])]
    \o Flatten([l \in 1..Len(lines) |->
                  [k \in 1..Len(perline) |-> LineMsg(lines[l], perline[k])]])

\* C14: the errors and the warnings dry_run returns are in rule-evaluation
\* order, unsorted: each list is the ordered list of all the rules' messages
\* (header rules, then the line rules line by line) with some left out.
C14_RuleOrder ==
    (DryRunDone /\ response.status = 200) =>
        /\ IsSubsequence(response.errors,
                         InOrder(ErrorOrder, LineErrorOrder, invoice.lines))
        /\ IsSubsequence(response.warnings,
                         InOrder(WarningOrder, LineWarningOrder, invoice.lines))

\* C14's case: the errors of a header rule and of a line are both returned,
\* the header rule's first
C14_Witness ==
    /\ DryRunDone
    /\ response.status = 200
    /\ \E i, j \in 1..Len(response.errors) :
          i < j /\ response.errors[i].line = <<>> /\ response.errors[j].line # <<>>

\* C15: the totals dry_run reports are the totals quantized to 2 decimals,
\* half-up, as fixed 2-decimal strings ("100.00", "20.00" and "120.00" for one
\* line of quantity 1, unit price 100 and VAT rate 20).
C15_TotalsTwoDecimals ==
    (DryRunDone /\ response.status = 200) =>
        /\ response.total_ht = _fmt(total_ht(invoice), 2).text
        /\ response.total_vat = _fmt(total_vat(invoice), 2).text
        /\ response.total_ttc = _fmt(total_ttc(invoice), 2).text

-----------------------------------------------------------------------------
(* The service: requests to the /v1 endpoints, one after the other          *)

Key1 == <<"k", "1">>

Key2 == <<"k", "2">>

\* CLIENTS as _load_api_keys reads it: one client; two; a client whose key
\* is the JSON null, which json.loads gives as None
ClientConfigs ==
    { <<[name |-> "default", key |-> Some(Key1)]>>,
      <<[name |-> "a", key |-> Some(Key1)], [name |-> "b", key |-> Some(Key2)]>>,
      <<[name |-> "demo", key |-> None]>> }

\* no X-API-Key header, a client's key, a key of no client
Keys == {None, Some(Key1), Some(<<"x">>)}

\* InvoiceData bodies: the test invoice; a seller SIRET of three digits; no
\* IBAN; a unit price of 1E+27; a control character, and a "/", in the number
Invoices ==
    { TestInvoice, Variant(TestInvoice, 1), Variant(TestInvoice, 5),
      Variant(TestInvoice, 33), Variant(TestInvoice, 35),
      [TestInvoice EXCEPT !.invoice_number = <<"T", "/", "2">>] }

\* CreditNoteData bodies
CreditNote(number, lines) ==
    [ invoice_number          |-> number,
      issue_date              |-> IssueDate,
      currency                |-> <<"E", "U", "R">>,
      seller                  |-> Seller,
      buyer                   |-> Buyer,
      lines                   |-> lines,
      original_invoice_number |-> <<"T", "1">> ]

CreditNotes == { CreditNote(<<"A", "1">>, <<TestLine>>) }

Init ==
    /\ op = "none"
    /\ invoice = NoRequest
    /\ api_key = None
    /\ response = NoResponse
    /\ storage = <<>>
    /\ clients \in ClientConfigs
    /\ xsd = "missing"
    /\ packager = "none"
    /\ workers = <<>>

\* POST /v1/invoice/generate
GenerateInvoice ==
    \E inv \in Invoices, key \in Keys, outcome \in PackagerOutcomes :
        /\ op' = "generate"
        /\ invoice' = inv
        /\ api_key' = key
        /\ IF verify_api_key(key) = None
           THEN response' = Forbidden /\ storage' = storage /\ packager' = "none"
           ELSE \E xml \in {generate_xml(inv)}, pdf \in {generate_pdf(inv)} :
                  \E done \in {Issue("facture", inv, xml, pdf, outcome)} :
                    /\ response' = done.response
                    /\ storage' = done.storage
                    /\ packager' = Called(xml, pdf, outcome)
        /\ UNCHANGED <<clients, xsd, workers>>

\* a body InvoiceData does not validate: the number alone
InvalidBody == [invoice_number |-> <<"T", "1">>]

\* the RequestValidationError handler
Invalid == [status |-> 422, error |-> "Donnees invalides"]

\* POST /v1/invoice/generate with a body that is not an InvoiceData: the key is
\* verified, then validation_exception_handler answers
GenerateInvalid ==
    \E key \in Keys :
        /\ op' = "generate_invalid"
        /\ invoice' = InvalidBody
        /\ api_key' = key
        /\ response' = IF verify_api_key(key) = None THEN Forbidden ELSE Invalid
        /\ packager' = "none"
        /\ UNCHANGED <<storage, clients, xsd, workers>>

\* POST /v1/credit-note/generate
GenerateCreditNote ==
    \E note \in CreditNotes, key \in Keys, outcome \in PackagerOutcomes :
        /\ op' = "credit_note"
        /\ invoice' = note
        /\ api_key' = key
        /\ IF verify_api_key(key) = None
           THEN response' = Forbidden /\ storage' = storage /\ packager' = "none"
           ELSE \E xml \in {generate_credit_note_xml(note)},
                   pdf \in {generate_pdf(note)} :
                  \E done \in {Issue("avoir", note, xml, pdf, outcome)} :
                    /\ response' = done.response
                    /\ storage' = done.storage
                    /\ packager' = Called(xml, pdf, outcome)
        /\ UNCHANGED <<clients, xsd, workers>>

\* POST /v1/invoice/dry-run
DryRunInvoice ==
    \E inv \in Invoices, key \in Keys :
        /\ op' = "dry_run"
        /\ invoice' = inv
        /\ api_key' = key
        /\ response' = IF verify_api_key(key) = None THEN Forbidden
                       ELSE dry_run_invoice(inv)
        /\ packager' = "none"
        /\ UNCHANGED <<storage, clients, xsd, workers>>

\* the body of validate_invoice_xml, given what generate_xml returned or raised
validate_invoice_xml(xml) ==
    IF xml.ok
    THEN [status |-> 200, valid |-> TRUE, xml_preview |-> xml.doc]
    ELSE [status |-> 500, error |-> "Erreur generation XML", message |-> xml.exc]

\* POST /v1/invoice/validate-xml
ValidateInvoiceXml ==
    \E inv \in Invoices, key \in Keys :
        /\ op' = "validate"
        /\ invoice' = inv
        /\ api_key' = key
        /\ response' = IF verify_api_key(key) = None THEN Forbidden
                       ELSE validate_invoice_xml(generate_xml(inv))
        /\ packager' = "none"
        /\ UNCHANGED <<storage, clients, xsd, workers>>

Next ==
    \/ GenerateInvoice
    \/ GenerateInvalid
    \/ GenerateCreditNote
    \/ DryRunInvoice
    \/ ValidateInvoiceXml

Spec == Init /\ [][Next]_vars

-----------------------------------------------------------------------------
(* Concurrent generate requests for one invoice number.  A handler never     *)
(* awaits, so the requests one server process serves run one after the       *)
(* other; the requests that run at the same time are those of the server     *)
(* processes that share STORAGE_DIR.  Each process serves one request here.  *)

\* the server processes
NWorkers == 2

Workers == 1..NWorkers

\* the most lines a request of these carries
MaxRaceLines == 2

\* the bodies: INVOICE_JSON with one to MaxRaceLines lines, the number the same
RaceInvoices ==
    {[TestInvoice EXCEPT !.lines =
         [i \in 1..n |-> Line(Digs(<<i>>), DecOf(1, 0), DecOf(100, 0), DecOf(20, 0))]]
       : n \in 1..MaxRaceLines}

\* the bytes of a document, in blocks: one block for the frame of the page and
\* the embedded XML, one more for each line of the table. A block of one
\* document holds other bytes than the block at the same place of another
\* (the documents here differ by their lines).
FileBytes(doc) ==
    [i \in 1..(Len(doc.pdf.lines) + 1) |-> [of |-> doc.pdf.lines, at |-> i]]

\* f.write(bytes) on a file just opened: the bytes go to offset 0, over what
\* the file holds there, and what it holds beyond them stays
WriteAt0(content, bytes) ==
    bytes \o SubSeq(content, Len(bytes) + 1, Len(content))

Idle == [pc |-> "idle", out |-> <<>>, seq |-> 0]

\* how many writes were made so far
Written == Cardinality({w \in Workers : workers[w].seq > 0})

InitRace ==
    /\ op = "none"
    /\ invoice = NoRequest
    /\ api_key = Some(Key1)
    /\ response = NoResponse
    /\ storage = <<>>
    /\ clients = <<[name |-> "default", key |-> Some(Key1)]>>
    /\ xsd = "missing"
    /\ packager = "none"
    /\ workers = [w \in Workers |-> Idle]

\* main.py 135-137: the request is received and its document made
Receive(w) ==
    /\ workers[w].pc = "idle"
    /\ \E inv \in RaceInvoices, outcome \in PackagerOutcomes :
         \E xml \in {generate_xml(inv)}, pdf \in {generate_pdf(inv)} :
           \E facturx \in {Package(xml, pdf, outcome)} :
             /\ invoice' = inv
             /\ packager' = Called(xml, pdf, outcome)
             /\ IF facturx.ok
                THEN /\ workers' = [workers EXCEPT
                                      ![w].pc = "packaged",
                                      ![w].out = FileBytes(facturx.bytes)]
                     /\ op' = "package"
                     /\ response' = response
                ELSE /\ workers' = [workers EXCEPT ![w].pc = "failed"]
                     /\ op' = "generate"
                     /\ response' = Failure(facturx.exc)
    /\ UNCHANGED <<api_key, storage, clients, xsd>>

\* main.py 141: open(filepath, "wb") creates the file or empties it
Open(w) ==
    /\ workers[w].pc = "packaged"
    /\ workers' = [workers EXCEPT ![w].pc = "opened"]
    /\ storage' = Write(storage, <<"facture", TestInvoice.invoice_number>>, <<>>)
    /\ op' = "open"
    /\ UNCHANGED <<invoice, api_key, response, clients, xsd, packager>>

\* main.py 142: f.write(facturx_bytes), flushed when the with block ends
WriteBytes(w) ==
    /\ workers[w].pc = "opened"
    /\ workers' = [workers EXCEPT ![w].pc = "written", ![w].seq = Written + 1]
    /\ LET filename == <<"facture", TestInvoice.invoice_number>>
       IN  storage' = Write(storage, filename,
                            WriteAt0(storage[filename], workers[w].out))
    /\ op' = "write"
    /\ UNCHANGED <<invoice, api_key, response, clients, xsd, packager>>

\* main.py 146-150: the response
Respond(w) ==
    /\ workers[w].pc = "written"
    /\ workers' = [workers EXCEPT ![w].pc = "done"]
    /\ op' = "generate"
    /\ response' = [ status   |-> 200,
                     content  |-> workers[w].out,
                     filename |-> <<"facture", TestInvoice.invoice_number>> ]
    /\ UNCHANGED <<invoice, api_key, storage, clients, xsd, packager>>

NextRace ==
    \E w \in Workers :
        \/ Receive(w)
        \/ Open(w)
        \/ WriteBytes(w)
        \/ Respond(w)

SpecRace == InitRace /\ [][NextRace]_vars

----------------------------------------------------------------------------
(* Claims about the endpoints (Spec) and about validate_xml (SpecValidate) *)

Authorized == verify_api_key(api_key) # None

\* C1: an invoice for which the rule set reports an error is not issued: the
\* generate operation neither returns nor stores a document for it.
C1_ErrorsBlockGeneration ==
    (op = "generate" /\ Authorized /\ RuleErrors(invoice) # <<>>) =>
        /\ response.status # 200
        /\ <<"facture", invoice.invoice_number>> \notin DOMAIN storage

\* C9: the header type code depends on the document kind: a generated invoice
\* carries type code 380 and a generated credit note type code 381.
C9_TypeCodeByKind ==
    /\ (op = "generate" /\ response.status = 200) =>
          response.content.xml.TypeCode = "380"
    /\ (op = "credit_note" /\ Authorized) =>
          /\ response.status = 200
          /\ response.content.xml.TypeCode = "381"

\* C10: without the schema file, validate_xml reports neither a successful
\* validation nor a failed one, but an outcome of its own.
C10_NotPerformedIsNeitherPassNorFail ==
    (op = "validate_xml" /\ xsd = "missing") =>
        /\ response.is_valid # TRUE
        /\ response.is_valid # FALSE

----------------------------------------------------------------------------
(* Claims about the Packager's failures (Spec) *)

\* the exceptions generate reports that the Packager did not raise: those of
\* generate_xml, of generate_pdf and of open()
OtherFailures == {ValueError, InvalidOperation, AttributeError, FileNotFoundError}

\* the kind of a response: its HTTP status (the detail holds the fixed label
\* of the except clause and the text of whichever exception was caught)
Kind(r) == r.status

\* C11: when the Packager rejects the page and the XML, generate reports a
\* failure, and one of a kind of its own: not the kind it reports for an
\* input/validation error nor the kind it reports for an internal error.
C11_PackagingFailureIsDistinct ==
    (op = "generate" /\ packager \notin {"none", "ok"}) =>
        /\ response.status # 200
        /\ Kind(response) \notin {Kind(Failure(exc)) : exc \in OtherFailures}

----------------------------------------------------------------------------
(* Claims about the API key (Spec) *)

\* the keys of the configured clients
ClientKeys == {clients[i].key : i \in 1..Len(clients)} \ {None}

\* C12: a request to a protected endpoint is accepted only if its X-API-Key
\* header is the key of a configured client; without a key, or with a key of
\* no client, it is rejected with status 403.
C12_OnlyClientKeysAccepted ==
    op \in {"generate", "generate_invalid", "credit_note", "dry_run", "validate"} =>
        /\ response.status # 403 => (api_key # None /\ api_key \in ClientKeys)
        /\ (api_key = None \/ api_key \notin ClientKeys) => response.status = 403

----------------------------------------------------------------------------
(* Claims about concurrent requests (SpecRace) *)

\* the requests that succeeded
Succeeded == {w \in Workers : workers[w].pc = "done"}

\* the one of them whose write was made last
LastWriter == CHOOSE w \in Succeeded : \A v \in Succeeded : workers[v].seq <= workers[w].seq

\* C13: storage is last-write-wins: once the concurrent requests for one
\* invoice number are over, the stored document is the complete output of the
\* successful request whose write was made last.
C13_LastWriteWins ==
    ((\A w \in Workers : workers[w].pc \in {"done", "failed"}) /\ Succeeded # {}) =>
        storage[<<"facture", TestInvoice.invoice_number>>] = workers[LastWriter].out

----------------------------------------------------------------------------
(* Claims about what a request leaves in storage (Spec) *)

====
